---- MODULE Spec2Model ----
(***************************************************************************)
(* Model of src/utils.py of the juju-backup-all charm:                     *)
(*   JujuBackupAllHelper.validate_config / push_ssh_keys / perform_backup  *)
(*   SSHKeyHelper.push_ssh_keys_to_models and its two helpers.             *)
(*                                                                         *)
(* Text is modelled as a sequence of one-character strings, bytes as       *)
(* integers 0..255 and a 32-bit word as a pair <<high half, low half>> of  *)
(* 16-bit integers, so that no intermediate value exceeds 2^31.            *)
(***************************************************************************)
EXTENDS Integers, Sequences, FiniteSets, TLC

(***************************************************************************)
(* str helpers used by the source: strip, split, slicing, zip, join.       *)
(***************************************************************************)
Whitespace == {" ", "\t", "\n"}

Min(a, b) == IF a <= b THEN a ELSE b

\* the positions of s that hold no whitespace
Solid(s) == {i \in 1..Len(s) : s[i] \notin Whitespace}

SetMin(S) == CHOOSE a \in S : \A b \in S : a <= b
SetMax(S) == CHOOSE a \in S : \A b \in S : a >= b

lstrip(s) == IF Solid(s) = {} THEN <<>> ELSE SubSeq(s, SetMin(Solid(s)), Len(s))

rstrip(s) == IF Solid(s) = {} THEN <<>> ELSE SubSeq(s, 1, SetMax(Solid(s)))

strip(s) == rstrip(lstrip(s))

\* length of the longest prefix of s that holds no whitespace
FieldLen(s) ==
    LET blanks == (1..Len(s)) \ Solid(s)
    IN  IF blanks = {} THEN Len(s) ELSE SetMin(blanks) - 1

\* str.split() without arguments: fields separated by runs of whitespace
RECURSIVE split(_)
split(s) ==
    LET t == lstrip(s)
        n == FieldLen(t)
    IN  IF t = <<>> THEN <<>>
        ELSE <<SubSeq(t, 1, n)>> \o split(SubSeq(t, n + 1, Len(t)))

\* s[::step] whatever the start: the odd characters are never taken
SliceFromStart(s, start, step) ==
    [i \in 1..((Len(s) + step - 1) \div step) |-> s[1 + ((i - 1) * step)]]

\* s[start::step], start counted from 0 as in the source
Slice(s, start, step) ==
    [i \in 1..((Len(s) - start + step - 1) \div step) |-> s[start + 1 + ((i - 1) * step)]]

zip(a, b) == [i \in 1..Min(Len(a), Len(b)) |-> <<a[i], b[i]>>]

RECURSIVE join(_, _)
join(sep, parts) ==
    IF parts = <<>> THEN <<>>
    ELSE IF Len(parts) = 1 THEN parts[1]
    ELSE parts[1] \o sep \o join(sep, Tail(parts))

(***************************************************************************)
(* base64.b64decode(key_body), validate=False, as binascii.a2b_base64      *)
(* decodes it: characters outside the alphabet are skipped, pads end the   *)
(* input once they complete a quad that holds at least two characters,     *)
(* and an unfinished quad is a binascii.Error (a ValueError).              *)
(***************************************************************************)
B64Alphabet ==
    << "A","B","C","D","E","F","G","H","I","J","K","L","M",
       "N","O","P","Q","R","S","T","U","V","W","X","Y","Z",
       "a","b","c","d","e","f","g","h","i","j","k","l","m",
       "n","o","p","q","r","s","t","u","v","w","x","y","z",
       "0","1","2","3","4","5","6","7","8","9","+","/" >>

B64Chars == {B64Alphabet[i] : i \in 1..64}

B64Val(c) == (CHOOSE i \in 1..64 : B64Alphabet[i] = c) - 1

Pow2(n) == [i \in 0..16 |-> 2^i][n]

\* one turn of the decoding loop, on character c; st = [quad |-> characters
\* held by the current quad, pads |-> pads seen since the last character,
\* left |-> bits not yet written, out |-> decoded bytes, done |-> a pad
\* sequence ended the input]
B64Char(c, st) ==
    IF st.done THEN st
    ELSE IF c = "="
    THEN IF st.quad >= 2 /\ st.quad + st.pads + 1 >= 4
         THEN [st EXCEPT !.done = TRUE]
         ELSE [st EXCEPT !.pads = st.pads + 1]
    ELSE IF c \notin B64Chars
    THEN st
    ELSE LET v == B64Val(c) IN
         IF st.quad = 0
         THEN [st EXCEPT !.quad = 1, !.pads = 0, !.left = v]
         ELSE IF st.quad = 1
         THEN [st EXCEPT !.quad = 2, !.pads = 0, !.left = v % 16,
                         !.out = Append(st.out, (st.left * 4) + (v \div 16))]
         ELSE IF st.quad = 2
         THEN [st EXCEPT !.quad = 3, !.pads = 0, !.left = v % 4,
                         !.out = Append(st.out, (st.left * 16) + (v \div 4))]
         ELSE [st EXCEPT !.quad = 0, !.pads = 0, !.left = 0,
                         !.out = Append(st.out, (st.left * 64) + v)]

\* the loop over the characters lo..hi of s, in order; it ends at the pad
\* sequence that completes a quad.  The characters are split in halves, so
\* that a half is decoded before the half that follows it.
RECURSIVE B64Loop(_, _, _, _)
B64Loop(s, st, lo, hi) ==
    IF st.done \/ lo > hi THEN st
    ELSE IF lo = hi THEN B64Char(s[lo], st)
    ELSE LET mid  == (lo + hi) \div 2
             half == B64Loop(s, st, lo, mid)
         IN  B64Loop(s, half, mid + 1, hi)

b64decode(s) ==
    LET st == B64Loop(s, [quad |-> 0, pads |-> 0, left |-> 0, out |-> <<>>, done |-> FALSE],
                      1, Len(s))
    IN  IF ~st.done /\ st.quad # 0
        THEN [exc |-> "binascii.Error", val |-> <<>>]
        ELSE [exc |-> "None", val |-> st.out]

(***************************************************************************)
(* hashlib.md5(key).hexdigest(): RFC 1321.                                 *)
(***************************************************************************)
RECURSIVE And16(_, _)
And16(x, y) ==
    IF x = 0 \/ y = 0 THEN 0
    ELSE ((x % 2) * (y % 2)) + (2 * And16(x \div 2, y \div 2))

Or16(x, y)  == x + y - And16(x, y)
Xor16(x, y) == x + y - (2 * And16(x, y))
Not16(x)    == 65535 - x

WAnd(a, b) == <<And16(a[1], b[1]), And16(a[2], b[2])>>
WOr(a, b)  == <<Or16(a[1], b[1]), Or16(a[2], b[2])>>
WXor(a, b) == <<Xor16(a[1], b[1]), Xor16(a[2], b[2])>>
WNot(a)    == <<Not16(a[1]), Not16(a[2])>>

\* addition modulo 2^32
WAdd(a, b) ==
    LET lo == a[2] + b[2]
    IN  <<(a[1] + b[1] + (lo \div 65536)) % 65536, lo % 65536>>

\* rotation to the left by s bits, 0 < s < 32
WRotl(a, s) ==
    LET w == IF s >= 16 THEN <<a[2], a[1]>> ELSE a
        r == s % 16
    IN  IF r = 0 THEN w
        ELSE << ((w[1] * Pow2(r)) % 65536) + (w[2] \div Pow2(16 - r)),
                ((w[2] * Pow2(r)) % 65536) + (w[1] \div Pow2(16 - r)) >>

MD5K ==
   << <<55146, 42104>>, <<59591, 46934>>, <<9248, 28891>>, <<49597, 52974>>,
      <<62844, 4015>>, <<18311, 50730>>, <<43056, 17939>>, <<64838, 38145>>,
      <<27008, 39128>>, <<35652, 63407>>, <<65535, 23473>>, <<35164, 55230>>,
      <<27536, 4386>>, <<64920, 29075>>, <<42617, 17294>>, <<18868, 2081>>,
      <<63006, 9570>>, <<49216, 45888>>, <<9822, 23121>>, <<59830, 51114>>,
      <<54831, 4189>>, <<580, 5203>>, <<55457, 59009>>, <<59347, 64456>>,
      <<8673, 52710>>, <<49975, 2006>>, <<62677, 3463>>, <<17754, 5357>>,
      <<43491, 59653>>, <<64751, 41976>>, <<26479, 729>>, <<36138, 19594>>,
      <<65530, 14658>>, <<34673, 63105>>, <<28061, 24866>>, <<64997, 14348>>,
      <<42174, 59972>>, <<19422, 53161>>, <<63163, 19296>>, <<48831, 48240>>,
      <<10395, 32454>>, <<60065, 10234>>, <<54511, 12421>>, <<1160, 7429>>,
      <<55764, 53305>>, <<59099, 39397>>, <<8098, 31992>>, <<50348, 22117>>,
      <<62505, 8772>>, <<17194, 65431>>, <<43924, 9127>>, <<64659, 41017>>,
      <<25947, 22979>>, <<36620, 52370>>, <<65519, 62589>>, <<34180, 24017>>,
      <<28584, 32335>>, <<65068, 59104>>, <<41729, 17172>>, <<19976, 4513>>,
      <<63315, 32386>>, <<48442, 62005>>, <<10967, 53947>>, <<60294, 54161>> >>

MD5S ==
   << 7, 12, 17, 22, 7, 12, 17, 22, 7, 12, 17, 22, 7, 12, 17, 22,
      5,  9, 14, 20, 5,  9, 14, 20, 5,  9, 14, 20, 5,  9, 14, 20,
      4, 11, 16, 23, 4, 11, 16, 23, 4, 11, 16, 23, 4, 11, 16, 23,
      6, 10, 15, 21, 6, 10, 15, 21, 6, 10, 15, 21, 6, 10, 15, 21 >>

MD5Init == << <<26437, 8961>>, <<61389, 43913>>, <<39098, 56574>>, <<4146, 21622>> >>

\* the message followed by 0x80, zeros up to 56 modulo 64, and its length
\* in bits as eight little-endian bytes
MD5Pad(msg) ==
    LET n     == Len(msg)
        zeros == (119 - (n % 64)) % 64
        bits  == n * 8
    IN  msg \o <<128>> \o [i \in 1..zeros |-> 0]
            \o << bits % 256, (bits \div 256) % 256, (bits \div 65536) % 256,
                  (bits \div 16777216) % 256, 0, 0, 0, 0 >>

\* the 16 little-endian words of block number k (from 0) of the padded bytes
MD5Block(bytes, k) ==
    [j \in 1..16 |->
        LET o == (64 * k) + (4 * (j - 1))
        IN  << bytes[o + 3] + (256 * bytes[o + 4]), bytes[o + 1] + (256 * bytes[o + 2]) >>]

\* one of the 64 steps; v = <<a, b, c, d>>, i counted from 0
MD5Step(v, M, i) ==
    LET a == v[1]
        b == v[2]
        c == v[3]
        d == v[4]
        f == IF i < 16 THEN WOr(WAnd(b, c), WAnd(WNot(b), d))
             ELSE IF i < 32 THEN WOr(WAnd(d, b), WAnd(WNot(d), c))
             ELSE IF i < 48 THEN WXor(b, WXor(c, d))
             ELSE WXor(c, WOr(b, WNot(d)))
        g == IF i < 16 THEN i
             ELSE IF i < 32 THEN (5 * i + 1) % 16
             ELSE IF i < 48 THEN (3 * i + 5) % 16
             ELSE (7 * i) % 16
        x == WAdd(WAdd(a, f), WAdd(MD5K[i + 1], M[g + 1]))
    IN  << d, WAdd(b, WRotl(x, MD5S[i + 1])), b, c >>

\* the steps lo..hi-1 on block M, in order, from the state v of four words.
\* The steps are split in halves and v is looked at before they start, so
\* that a half is computed before the half that follows it.
RECURSIVE MD5Steps(_, _, _, _)
MD5Steps(v, M, lo, hi) ==
    IF Len(v) # 4 \/ hi <= lo THEN v
    ELSE IF hi = lo + 1 THEN MD5Step(v, M, lo)
    ELSE LET mid  == (lo + hi) \div 2
             half == MD5Steps(v, M, lo, mid)
         IN  MD5Steps(half, M, mid, hi)

\* the chaining value after the first k blocks of the padded bytes
RECURSIVE MD5Blocks(_, _)
MD5Blocks(bytes, k) ==
    IF k = 0 THEN MD5Init
    ELSE LET h == MD5Blocks(bytes, k - 1)
             v == MD5Steps(h, MD5Block(bytes, k - 1), 0, 64)
         IN  << WAdd(h[1], v[1]), WAdd(h[2], v[2]), WAdd(h[3], v[3]), WAdd(h[4], v[4]) >>

\* the 16 digest bytes: the four words of the last chaining value, each
\* little-endian
md5(msg) ==
    LET bytes == MD5Pad(msg)
        h     == MD5Blocks(bytes, Len(bytes) \div 64)
    IN  [n \in 1..16 |->
            LET w == h[((n - 1) \div 4) + 1]
                p == (n - 1) % 4
            IN  IF p = 0 THEN w[2] % 256
                ELSE IF p = 1 THEN w[2] \div 256
                ELSE IF p = 2 THEN w[1] % 256
                ELSE w[1] \div 256]

HexDigits == <<"0","1","2","3","4","5","6","7","8","9","a","b","c","d","e","f">>

hexdigest(bytes) ==
    [n \in 1..(2 * Len(bytes)) |->
        LET byte == bytes[(n + 1) \div 2]
        IN  IF n % 2 = 1 THEN HexDigits[(byte \div 16) + 1] ELSE HexDigits[(byte % 16) + 1]]

(***************************************************************************)
(* SSHKeyHelper._gen_libjuju_ssh_key_fingerprint.  A call returns          *)
(* [exc |-> "None", val |-> fingerprint] or raises: [exc |-> error].       *)
(* raw_pubkey is [none |-> TRUE] for the default argument None, otherwise  *)
(* [none |-> FALSE, str |-> text]; file is the text of SSH_PUBLIC_KEY.     *)
(***************************************************************************)
NoneArg == [none |-> TRUE, str |-> <<>>]
StrArg(s) == [none |-> FALSE, str |-> s]

Raise(e) == [exc |-> e, val |-> <<>>]
Return(v) == [exc |-> "None", val |-> v]

\* the fingerprint with the key split as raw_pubkey.split(None, 2): what
\* follows the body is the comment, spaces included
gen_fingerprint_maxsplit(raw_pubkey, file) ==
    LET raw    == IF raw_pubkey.none THEN strip(file) ELSE raw_pubkey.str
        fields == split(raw)
    IN  IF Len(fields) < 3 THEN Raise("ValueError")
        ELSE LET key_body     == fields[2]
                 key_comment  == join(<<" ">>, SubSeq(fields, 3, Len(fields)))
                 key          == b64decode(key_body)
             IN  IF key.exc # "None" THEN Raise(key.exc)
                 ELSE LET key_fp_plain == hexdigest(md5(key.val))
                          pairs  == zip(Slice(key_fp_plain, 0, 2), Slice(key_fp_plain, 1, 2))
                          key_fp == join(<<":">>, [i \in 1..Len(pairs) |-> <<pairs[i][1], pairs[i][2]>>])
                      IN  Return(key_fp \o <<" ", "(">> \o key_comment \o <<")">>)

_gen_libjuju_ssh_key_fingerprint(raw_pubkey, file) ==
    LET raw    == IF raw_pubkey.none THEN strip(file) ELSE raw_pubkey.str
        fields == split(raw)
    IN  IF Len(fields) # 3 THEN Raise("ValueError")
        ELSE LET key_body     == fields[2]
                 key_comment  == fields[3]
                 key          == b64decode(key_body)
             IN  IF key.exc # "None" THEN Raise(key.exc)
                 ELSE LET key_fp_plain == hexdigest(md5(key.val))
                          pairs  == zip(Slice(key_fp_plain, 0, 2), Slice(key_fp_plain, 1, 2))
                          key_fp == join(<<":">>, [i \in 1..Len(pairs) |-> <<pairs[i][1], pairs[i][2]>>])
                      IN  Return(key_fp \o <<" ", "(">> \o key_comment \o <<")">>)

(***************************************************************************)
(* The inputs of the model: key types, key bodies, comments, key files.    *)
(***************************************************************************)
KeyTypeRsa == <<"s","s","h","-","r","s","a">>
KeyTypeEd == <<"s","s","h","-","e","d","2","5","5","1","9">>
KeyTypes == {KeyTypeRsa, KeyTypeEd}

CommentHost == <<"j","u","j","u","b","a","c","k","u","p","@","h">>
CommentX == <<"x">>
Comments == {CommentHost, CommentX}

\* base64 bodies: of the empty key, of "a", "abc" and "message digest", one with
\* a character outside the alphabet, one of 56 bytes (two MD5 blocks), and two
\* that are not base64 (a pad is missing; one character too many)
BodyEmpty == <<"=","=","=","=">>
BodyA == <<"Y","Q","=","=">>
BodyAbc == <<"Y","W","J","j">>
BodyDigest == <<"b","W","V","z","c","2","F","n","Z","S","B","k","a","W","d","l","c","3","Q","=">>
BodySkip == <<"Y","W","-","J","j">>
BodyLong ==
    <<"Y","W","F","h","Y","W","F","h","Y","W","F","h","Y","W","F","h","Y","W","F","h","Y","W","F","h","Y","W","F","h","Y","W","F","h","Y","W","F","h","Y","W","F","h","Y","W","F","h","Y","W","F","h","Y","W","F","h","Y","W","F","h","Y","W","F","h","Y","W","F","h","Y","W","F","h","Y","W","F","h","Y","W","E","=">>
BodyBadPad == <<"Y","W","J">>
BodyOneOver == <<"Y","W","J","j","Z">>

Base64Bodies == {BodyEmpty, BodyA, BodyAbc, BodyDigest, BodySkip, BodyLong}
KeyBodies == Base64Bodies \cup {BodyBadPad, BodyOneOver}

KeyFileValid ==
    <<"s","s","h","-","r","s","a"," ","Y","W","J","j"," ","j","u","j","u","b","a","c","k","u","p","@","h","\n">>
KeyFileEmpty ==
    <<>>
KeyFileTwoFields ==
    <<"s","s","h","-","r","s","a"," ","Y","W","J","j","\n">>
KeyFileSpacedComment ==
    <<"s","s","h","-","r","s","a"," ","Y","W","J","j"," ","j","u","j","u"," ","b","a","c","k","u","p","\n">>
KeyFileTwoKeys ==
    <<"s","s","h","-","r","s","a"," ","Y","W","J","j"," ","x","\n","s","s","h","-","r","s","a"," ","Y","Q","=","="," ","x","\n">>
KeyFileWrapped ==
    <<"s","s","h","-","r","s","a"," ","Y","W","J","j","\n","j","u","j","u","b","a","c","k","u","p","@","h","\n">>
KeyFileBadBody ==
    <<"s","s","h","-","r","s","a"," ","Y","W","J"," ","x","\n">>

\* a fingerprint of another key, as a model may hold it
OtherFingerprint ==
    <<"0","c",":","c","1",":","7","5",":","b","9",":","c","0",":","f","1",":","b","6",":","a","8",":","3","1",":","c","3",":","9","9",":","e","2",":","6","9",":","7","7",":","2","6",":","6","1"," ","(","x",")">>

(***************************************************************************)
(* The charm options "controllers" and "accounts" and yaml.safe_load on    *)
(* them.  A parse gives [exc, type, val]: exc is "None" or the error       *)
(* PyYAML raises, type the Python type of the document, val the mapping    *)
(* when the document is one.                                               *)
(***************************************************************************)
DocFull    == "controllers: {c1: {user: admin}, c2: {user: backup}}"
DocPartial == "controllers: {c1: {user: admin}, c2: {password: secret}}"
DocNoKey   == "clouds: {lxd: local}"
DocList    == "- controllers"
DocScalar  == "controllers"
DocEmpty   == ""
DocUnclosed == "controllers: ["
DocNested  == "controllers: a: b"

YamlDocs ==
    {DocFull, DocPartial, DocNoKey, DocList, DocScalar, DocEmpty, DocUnclosed, DocNested}

Parsed(type, val) == [exc |-> "None", type |-> type, val |-> val]
ParseError(e) == [exc |-> e, type |-> "None", val |-> <<>>]

safe_load(content) ==
    CASE content = DocFull ->
            Parsed("dict", [controllers |-> [c1 |-> [user |-> "admin"],
                                             c2 |-> [user |-> "backup"]]])
      [] content = DocPartial ->
            Parsed("dict", [controllers |-> [c1 |-> [user |-> "admin"],
                                             c2 |-> [password |-> "secret"]]])
      [] content = DocNoKey   -> Parsed("dict", [clouds |-> [lxd |-> "local"]])
      [] content = DocList    -> Parsed("list", <<>>)
      [] content = DocScalar  -> Parsed("str", <<>>)
      [] content = DocEmpty   -> Parsed("NoneType", <<>>)
      [] content = DocUnclosed -> ParseError("ParserError")
      [] content = DocNested  -> ParseError("ScannerError")

\* JujuBackupAllHelper.accounts: yaml.safe_load(accounts_yaml)["controllers"]
accounts_property(config) ==
    LET doc == safe_load(config["accounts"])
    IN  IF doc.exc # "None" THEN Raise(doc.exc)
        ELSE IF doc.type # "dict" THEN Raise("TypeError")
        ELSE IF "controllers" \notin DOMAIN doc.val THEN Raise("KeyError")
        ELSE Return(doc.val["controllers"])

\* self.accounts[controller_name]["user"]
account_user(accts, controller_name) ==
    IF controller_name \notin DOMAIN accts THEN [exc |-> "KeyError", val |-> ""]
    ELSE IF "user" \notin DOMAIN accts[controller_name] THEN [exc |-> "KeyError", val |-> ""]
    ELSE [exc |-> "None", val |-> accts[controller_name]["user"]]

BlockedStatus(msg) == [name |-> "blocked", message |-> msg]

InvalidYamlMsg(yaml_field) == "Invalid yaml for '" \o yaml_field \o "' option"

\* the loop of validate_config over the options still to check; the result
\* is [exc, ret, status]: the error that leaves the method, the value it
\* returns, and the unit status it leaves
RECURSIVE validate_fields(_, _, _)
validate_fields(config, status, fields) ==
    IF fields = <<>> THEN [exc |-> "None", ret |-> "True", status |-> status]
    ELSE LET yaml_field == Head(fields)
             doc        == safe_load(config[yaml_field])
         IN  IF doc.exc = "ParserError"
                \/ (doc.exc = "None" /\ doc.type # "dict")
                \/ (doc.exc = "None" /\ doc.type = "dict" /\ "controllers" \notin DOMAIN doc.val)
             THEN [exc |-> "None", ret |-> "False",
                   status |-> BlockedStatus(InvalidYamlMsg(yaml_field))]
             ELSE IF doc.exc # "None"
             THEN [exc |-> doc.exc, ret |-> "None", status |-> status]
             ELSE validate_fields(config, status, Tail(fields))

(***************************************************************************)
(* Bounds of the model, and the names the remote side can hold.            *)
(***************************************************************************)
NumControllers == 2
MaxModels == 2

ControllerPool == <<"c1", "c2", "c3", "c4">>
ModelPool == <<"m1", "m2", "m3", "m4">>

\* BackupProcessor.controller_names: the controllers the run is to touch
ControllerLists == {SubSeq(ControllerPool, 1, n) : n \in 0..NumControllers}

\* what controller.list_models() can return
ModelLists == {SubSeq(ModelPool, 1, n) : n \in 0..MaxModels}

\* the hex part of a fingerprint with another comment
SameKeyOtherComment(fp) == SubSeq(fp, 1, 47) \o <<" ", "(", "o", ")">>

NoneResult == [none |-> TRUE, list |-> <<>>]
ListResult(l) == [none |-> FALSE, list |-> l]

\* what model.get_ssh_keys() can return while the run looks for fp: one
\* result, which is null or a list of fingerprints
KeyInfos(fp) ==
    { [results |-> <<[result |-> r]>>] :
        r \in { NoneResult, ListResult(<<>>), ListResult(<<OtherFingerprint>>),
                ListResult(<<OtherFingerprint, fp>>),
                ListResult(<<SameKeyOtherComment(fp)>>) } }

\* SSHKeyHelper._get_model_ssh_key_fingeprints, on the reply of get_ssh_keys
get_model_ssh_key_fingeprints(libjuju_keyinfo) ==
    LET fingerprints == libjuju_keyinfo["results"][1]["result"]
    IN  IF fingerprints.none \/ fingerprints.list = <<>> THEN <<>> ELSE fingerprints.list

\* the digests are compared and the comments are not
NotInByDigest(fp, fingerprints) ==
    \A i \in 1..Len(fingerprints) :
        SubSeq(fingerprints[i], 1, Min(47, Len(fingerprints[i]))) # SubSeq(fp, 1, Min(47, Len(fp)))

\* fingerprint not in fingerprints
NotIn(fp, fingerprints) == \A i \in 1..Len(fingerprints) : fingerprints[i] # fp

(***************************************************************************)
(* State.                                                                  *)
(***************************************************************************)
VARIABLES
    keyFile,          \* text of Paths.SSH_PUBLIC_KEY
    charm_config,     \* the options "controllers" and "accounts"
    unit_status,      \* self.model.unit.status
    pc,               \* the statement the call is at
    entry,            \* the method that was called
    accounts,         \* SSHKeyHelper.accounts
    pubkey,           \* push_ssh_keys_to_models: pubkey
    fingerprint,      \*   fingerprint
    controller_names, \*   backup_processor.controller_names
    ci,               \*   index of controller_name in controller_names
    model_names,      \*   model_names
    listed,           \*   list_models returned for this controller
    mi,               \*   index of model_name in model_names
    username,         \*   username
    keyinfo,          \*   the reply of get_ssh_keys for this model
    fetched,          \*   the fingerprints taken from it
    fetchedOk,        \*   get_ssh_keys returned for this model
    exc,              \* the exception that is propagating, or "None"
    openCtrl,         \* the controller connections that are open
    openModel,        \* the model connections that are open
    visitAdds,        \* the add_ssh_keys requests issued for this model
    remoteIssued,     \* the kinds of remote request issued in the run
    ctlAttempted,     \* the controllers the loop has taken up
    mdlAttempted,     \* the models of this controller the loop has taken up
    failedCtl,        \* the controllers whose processing raised
    mdlFailed,        \* the models of this controller whose processing raised
    anyAdded,         \* some add_ssh_keys request was issued in the run
    loopEntered,      \* the loop over the controllers was reached
    pushRet,          \* what push_ssh_keys returned, or "None"
    pushExc,          \* the exception that left push_ssh_keys, or "None"
    raisedOut,        \* the exception that left the called method, or "None"
    backupStarted,    \* process_backups was called
    backupReturned,   \* process_backups returned
    chowned,          \* _update_dir_owner(backup-dir) was called
    fpFields,         \* fingerprint call: the fields the argument is made of
    fpArg,            \*   raw_pubkey
    fpRet,            \*   what the call returned or raised
    statusBefore,     \* validate_config: the unit status when it was called
    vcRet,            \*   what it returned: "True", "False", or "None"
    vcExc             \*   the exception that left it, or "None"

inputVars == <<keyFile, charm_config>>
localVars == <<accounts, pubkey, fingerprint, controller_names>>
loopVars  == <<ci, model_names, listed, mi>>
visitVars == <<username, keyinfo, fetched, fetchedOk, visitAdds>>
connVars  == <<openCtrl, openModel>>
traceVars == <<remoteIssued, ctlAttempted, mdlAttempted, failedCtl, mdlFailed, anyAdded, loopEntered>>
backupVars == <<backupStarted, backupReturned, chowned>>
fpVars    == <<fpFields, fpArg, fpRet>>
vcVars    == <<unit_status, statusBefore, vcRet, vcExc>>

vars == <<inputVars, pc, entry, localVars, loopVars, visitVars, exc, connVars, traceVars,
          pushRet, pushExc, raisedOut, backupVars, fpVars, vcVars>>

ActiveStatus == [name |-> "active", message |-> "Ready"]
MaintenanceStatus == [name |-> "maintenance", message |-> "Installing"]

NoKeyInfo == [results |-> <<[result |-> NoneResult]>>]

KeyFiles ==
    {KeyFileValid, KeyFileEmpty, KeyFileTwoFields, KeyFileSpacedComment, KeyFileTwoKeys,
     KeyFileWrapped, KeyFileBadBody}

(***************************************************************************)
(* A call of _gen_libjuju_ssh_key_fingerprint on its own, with the key     *)
(* given as raw_pubkey or read from the key file.                          *)
(***************************************************************************)
CommentJuju == <<"j","u","j","u">>
CommentBackup == <<"b","a","c","k","u","p">>

\* the whitespace-separated fields a key line is made of: none, one, two,
\* three (type, body, comment) or four (a comment that holds a space)
FieldLists ==
    {<<>>}
    \cup {<<t>> : t \in KeyTypes}
    \cup {<<t, b>> : t \in KeyTypes, b \in KeyBodies}
    \cup {<<t, b, c>> : t \in KeyTypes, b \in KeyBodies, c \in Comments}
    \cup {<<t, b, CommentJuju, CommentBackup>> : t \in KeyTypes, b \in {BodyAbc, BodyBadPad}}

\* the whitespace before, between and after the fields
Layouts ==
    { [lead |-> <<>>,    sep |-> <<" ">>,      trail |-> <<>>],
      [lead |-> <<>>,    sep |-> <<"\t">>,     trail |-> <<"\n">>],
      [lead |-> <<" ">>, sep |-> <<" ", " ">>, trail |-> <<" ", "\n">>] }

KeyLine(fields, layout) == layout.lead \o join(layout.sep, fields) \o layout.trail

FreshPush ==
    /\ accounts = <<>>
    /\ pubkey = <<>>
    /\ fingerprint = <<>>
    /\ controller_names = <<>>
    /\ ci = 0
    /\ model_names = <<>>
    /\ listed = FALSE
    /\ mi = 0
    /\ username = ""
    /\ keyinfo = NoKeyInfo
    /\ fetched = <<>>
    /\ fetchedOk = FALSE
    /\ exc = "None"
    /\ openCtrl = {}
    /\ openModel = {}
    /\ visitAdds = <<>>
    /\ remoteIssued = {}
    /\ ctlAttempted = {}
    /\ mdlAttempted = {}
    /\ failedCtl = {}
    /\ mdlFailed = {}
    /\ anyAdded = FALSE
    /\ loopEntered = FALSE
    /\ pushRet = "None"
    /\ pushExc = "None"
    /\ raisedOut = "None"
    /\ backupStarted = FALSE
    /\ backupReturned = FALSE
    /\ chowned = FALSE

FreshValidate ==
    /\ statusBefore = unit_status
    /\ vcRet = "None"
    /\ vcExc = "None"

FreshFingerprint ==
    /\ fpFields = <<>>
    /\ fpArg = NoneArg
    /\ fpRet = Return(<<>>)

\* a helper whose perform_backup or push_ssh_keys is about to be called
Init ==
    /\ keyFile \in KeyFiles
    /\ charm_config \in [controllers : {DocFull}, accounts : YamlDocs]
    /\ unit_status = ActiveStatus
    /\ entry \in {"perform_backup", "push_ssh_keys"}
    /\ pc = entry
    /\ FreshPush
    /\ FreshValidate
    /\ FreshFingerprint

\* a helper whose _gen_libjuju_ssh_key_fingerprint is about to be called
InitFingerprint ==
    /\ \E fields \in FieldLists, layout \in Layouts, fromFile \in BOOLEAN :
          /\ fpFields = fields
          /\ keyFile = IF fromFile THEN KeyLine(fields, layout) ELSE KeyFileValid
          /\ fpArg = IF fromFile THEN NoneArg ELSE StrArg(KeyLine(fields, layout))
    /\ fpRet = Return(<<>>)
    /\ charm_config = [controllers |-> DocFull, accounts |-> DocFull]
    /\ unit_status = ActiveStatus
    /\ entry = "gen_libjuju_ssh_key_fingerprint"
    /\ pc = entry
    /\ FreshPush
    /\ FreshValidate

\* a helper whose validate_config is about to be called
InitValidate ==
    /\ keyFile = KeyFileValid
    /\ charm_config \in [controllers : YamlDocs, accounts : YamlDocs]
    /\ unit_status \in {ActiveStatus, MaintenanceStatus}
    /\ entry = "validate_config"
    /\ pc = entry
    /\ FreshPush
    /\ FreshValidate
    /\ FreshFingerprint

(***************************************************************************)
(* JujuBackupAllHelper.perform_backup and push_ssh_keys,                   *)
(* SSHKeyHelper.push_ssh_keys_to_models: one action per statement that     *)
(* can raise or that talks to the remote side.                             *)
(***************************************************************************)

\* perform_backup, up to its call of push_ssh_keys
perform_backup ==
    /\ pc = "perform_backup"
    /\ pc' = "push_ssh_keys"
    /\ UNCHANGED <<inputVars, entry, localVars, loopVars, visitVars, exc, connVars, traceVars,
                   pushRet, pushExc, raisedOut, backupVars, fpVars, vcVars>>

\* push_ssh_keys: SSHKeyHelper(self.config, self.accounts); an error of the
\* accounts property leaves the method, and its caller
push_ssh_keys ==
    /\ pc = "push_ssh_keys"
    /\ \E a \in {accounts_property(charm_config)} :
           IF a.exc # "None"
           THEN /\ pushExc' = a.exc
                /\ raisedOut' = a.exc
                /\ pc' = "done"
                /\ UNCHANGED accounts
           ELSE /\ accounts' = a.val
                /\ pc' = "push_ssh_keys_to_models"
                /\ UNCHANGED <<pushExc, raisedOut>>
    /\ UNCHANGED <<inputVars, entry, pubkey, fingerprint, controller_names, loopVars, visitVars,
                   exc, connVars, traceVars, pushRet, backupVars, fpVars, vcVars>>

\* push_ssh_keys_to_models: the key is read and the BackupProcessor built
push_ssh_keys_to_models ==
    /\ pc = "push_ssh_keys_to_models"
    /\ pubkey' = strip(keyFile)
    /\ controller_names' \in ControllerLists
    /\ pc' = "gen_fingerprint"
    /\ UNCHANGED <<inputVars, entry, accounts, fingerprint, loopVars, visitVars, exc, connVars,
                   traceVars, pushRet, pushExc, raisedOut, backupVars, fpVars, vcVars>>

\* fingerprint = self._gen_libjuju_ssh_key_fingerprint(): the error of a
\* malformed key is swallowed and the run goes on without a fingerprint
gen_fingerprint_swallow ==
    /\ pc = "gen_fingerprint"
    /\ \E r \in {_gen_libjuju_ssh_key_fingerprint(NoneArg, keyFile)} :
           fingerprint' = r.val
    /\ loopEntered' = TRUE
    /\ pc' = "for_controller"
    /\ UNCHANGED <<inputVars, entry, accounts, pubkey, controller_names, loopVars, visitVars,
                   exc, connVars, remoteIssued, ctlAttempted, mdlAttempted, failedCtl,
                   mdlFailed, anyAdded, pushRet, pushExc, raisedOut, backupVars, fpVars, vcVars>>

\* fingerprint = self._gen_libjuju_ssh_key_fingerprint(); its error leaves
\* push_ssh_keys_to_models, push_ssh_keys and perform_backup
gen_fingerprint ==
    /\ pc = "gen_fingerprint"
    /\ \E r \in {_gen_libjuju_ssh_key_fingerprint(NoneArg, keyFile)} :
           IF r.exc # "None"
           THEN /\ pushExc' = r.exc
                /\ raisedOut' = r.exc
                /\ pc' = "done"
                /\ UNCHANGED <<fingerprint, loopEntered>>
           ELSE /\ fingerprint' = r.val
                /\ loopEntered' = TRUE
                /\ pc' = "for_controller"
                /\ UNCHANGED <<pushExc, raisedOut>>
    /\ UNCHANGED <<inputVars, entry, accounts, pubkey, controller_names, loopVars, visitVars,
                   exc, connVars, remoteIssued, ctlAttempted, mdlAttempted, failedCtl,
                   mdlFailed, anyAdded, pushRet, backupVars, fpVars, vcVars>>

\* for controller_name in backup_processor.controller_names
for_controller ==
    /\ pc = "for_controller"
    /\ IF ci < Len(controller_names)
       THEN /\ ci' = ci + 1
            /\ ctlAttempted' = ctlAttempted \cup {ci + 1}
            /\ listed' = FALSE
            /\ mdlAttempted' = {}
            /\ mdlFailed' = {}
            /\ fetchedOk' = FALSE
            /\ keyinfo' = NoKeyInfo
            /\ visitAdds' = <<>>
            /\ pc' = "connect_controller"
       ELSE /\ pc' = "return_success"
            /\ UNCHANGED <<ci, ctlAttempted, listed, mdlAttempted, mdlFailed, fetchedOk,
                           keyinfo, visitAdds>>
    /\ UNCHANGED <<inputVars, entry, localVars, model_names, mi, username, fetched, exc,
                   connVars, remoteIssued, failedCtl, anyAdded, loopEntered, pushRet, pushExc,
                   raisedOut, backupVars, fpVars, vcVars>>

\* with connect_controller(controller_name) as controller: entering
connect_controller ==
    /\ pc = "connect_controller"
    /\ remoteIssued' = remoteIssued \cup {"connect"}
    /\ \/ /\ openCtrl' = openCtrl \cup {ci}
          /\ pc' = "list_models"
          /\ UNCHANGED exc
       \/ /\ exc' = "JujuError"
          /\ pc' = "except_controller"
          /\ UNCHANGED openCtrl
    /\ UNCHANGED <<inputVars, entry, localVars, loopVars, visitVars, openModel, ctlAttempted,
                   mdlAttempted, failedCtl, mdlFailed, anyAdded, loopEntered, pushRet, pushExc,
                   raisedOut, backupVars, fpVars, vcVars>>

\* model_names = run_async(controller.list_models())
list_models ==
    /\ pc = "list_models"
    /\ remoteIssued' = remoteIssued \cup {"list_models"}
    /\ \/ /\ model_names' \in ModelLists
          /\ listed' = TRUE
          /\ mi' = 0
          /\ pc' = "for_model"
          /\ UNCHANGED exc
       \/ /\ exc' = "JujuError"
          /\ pc' = "exit_controller"
          /\ UNCHANGED <<model_names, listed, mi>>
    /\ UNCHANGED <<inputVars, entry, localVars, ci, visitVars, connVars, ctlAttempted,
                   mdlAttempted, failedCtl, mdlFailed, anyAdded, loopEntered, pushRet, pushExc,
                   raisedOut, backupVars, fpVars, vcVars>>

\* for model_name in model_names
for_model ==
    /\ pc = "for_model"
    /\ IF mi < Len(model_names)
       THEN /\ mi' = mi + 1
            /\ mdlAttempted' = mdlAttempted \cup {mi + 1}
            /\ fetchedOk' = FALSE
            /\ keyinfo' = NoKeyInfo
            /\ visitAdds' = <<>>
            /\ pc' = "connect_model"
       ELSE /\ pc' = "exit_controller"
            /\ UNCHANGED <<mi, mdlAttempted, fetchedOk, keyinfo, visitAdds>>
    /\ UNCHANGED <<inputVars, entry, localVars, ci, model_names, listed, username, fetched, exc,
                   connVars, remoteIssued, ctlAttempted, failedCtl, mdlFailed, anyAdded,
                   loopEntered, pushRet, pushExc, raisedOut, backupVars, fpVars, vcVars>>

\* with connect_model(controller, model_name) as model: entering
connect_model ==
    /\ pc = "connect_model"
    /\ remoteIssued' = remoteIssued \cup {"connect"}
    /\ \/ /\ openModel' = openModel \cup {<<ci, mi>>}
          /\ pc' = "get_username"
          /\ UNCHANGED exc
       \/ /\ exc' = "JujuError"
          /\ pc' = "except_model"
          /\ UNCHANGED openModel
    /\ UNCHANGED <<inputVars, entry, localVars, loopVars, visitVars, openCtrl, ctlAttempted,
                   mdlAttempted, failedCtl, mdlFailed, anyAdded, loopEntered, pushRet, pushExc,
                   raisedOut, backupVars, fpVars, vcVars>>

\* username = self.accounts[controller_name]["user"]
get_username ==
    /\ pc = "get_username"
    /\ \E u \in {account_user(accounts, controller_names[ci])} :
           IF u.exc # "None"
           THEN /\ exc' = u.exc
                /\ pc' = "exit_model"
                /\ UNCHANGED username
           ELSE /\ username' = u.val
                /\ pc' = "get_ssh_keys"
                /\ UNCHANGED exc
    /\ UNCHANGED <<inputVars, entry, localVars, loopVars, keyinfo, fetched, fetchedOk, visitAdds,
                   connVars, traceVars, pushRet, pushExc, raisedOut, backupVars, fpVars, vcVars>>

\* self._get_model_ssh_key_fingeprints(model): run_async(model.get_ssh_keys())
get_ssh_keys ==
    /\ pc = "get_ssh_keys"
    /\ remoteIssued' = remoteIssued \cup {"get_ssh_keys"}
    /\ \/ /\ keyinfo' \in KeyInfos(fingerprint)
          /\ fetched' = get_model_ssh_key_fingeprints(keyinfo')
          /\ fetchedOk' = TRUE
          /\ pc' = "check_fingerprint"
          /\ UNCHANGED exc
       \/ /\ exc' = "JujuError"
          /\ pc' = "exit_model"
          /\ UNCHANGED <<keyinfo, fetched, fetchedOk>>
    /\ UNCHANGED <<inputVars, entry, localVars, loopVars, username, visitAdds, connVars,
                   ctlAttempted, mdlAttempted, failedCtl, mdlFailed, anyAdded, loopEntered,
                   pushRet, pushExc, raisedOut, backupVars, fpVars, vcVars>>

\* if fingerprint not in <the fingerprints of the model>: ... else: skip
check_fingerprint ==
    /\ pc = "check_fingerprint"
    /\ pc' = IF NotIn(fingerprint, fetched) THEN "add_ssh_keys" ELSE "exit_model"
    /\ UNCHANGED <<inputVars, entry, localVars, loopVars, visitVars, exc, connVars, traceVars,
                   pushRet, pushExc, raisedOut, backupVars, fpVars, vcVars>>

\* run_async(model.add_ssh_keys(BACKUP_USERNAME, pubkey)): the key is added
\* under the name of the backup user of the unit
add_ssh_keys_backup_user ==
    /\ pc = "add_ssh_keys"
    /\ remoteIssued' = remoteIssued \cup {"add_ssh_keys"}
    /\ visitAdds' = Append(visitAdds, [username |-> "jujubackup", key |-> pubkey])
    /\ anyAdded' = TRUE
    /\ pc' = "exit_model"
    /\ \/ UNCHANGED exc
       \/ exc' = "JujuError"
    /\ UNCHANGED <<inputVars, entry, localVars, loopVars, username, keyinfo, fetched, fetchedOk,
                   connVars, ctlAttempted, mdlAttempted, failedCtl, mdlFailed, loopEntered,
                   pushRet, pushExc, raisedOut, backupVars, fpVars, vcVars>>

\* run_async(model.add_ssh_keys(username, pubkey))
add_ssh_keys ==
    /\ pc = "add_ssh_keys"
    /\ remoteIssued' = remoteIssued \cup {"add_ssh_keys"}
    /\ visitAdds' = Append(visitAdds, [username |-> username, key |-> pubkey])
    /\ anyAdded' = TRUE
    /\ pc' = "exit_model"
    /\ \/ UNCHANGED exc
       \/ exc' = "JujuError"
    /\ UNCHANGED <<inputVars, entry, localVars, loopVars, username, keyinfo, fetched, fetchedOk,
                   connVars, ctlAttempted, mdlAttempted, failedCtl, mdlFailed, loopEntered,
                   pushRet, pushExc, raisedOut, backupVars, fpVars, vcVars>>

\* the model is disconnected at the end of the block, and an exception of
\* the block goes to the handler with the connection left open
exit_model_on_success ==
    /\ pc = "exit_model"
    /\ IF exc = "None"
       THEN /\ openModel' = openModel \ {<<ci, mi>>}
            /\ remoteIssued' = remoteIssued \cup {"disconnect"}
            /\ \/ /\ pc' = "for_model"
                  /\ UNCHANGED exc
               \/ /\ exc' = "JujuError"
                  /\ pc' = "except_model"
       ELSE /\ pc' = "except_model"
            /\ UNCHANGED <<openModel, remoteIssued, exc>>
    /\ UNCHANGED <<inputVars, entry, localVars, loopVars, visitVars, openCtrl, ctlAttempted,
                   mdlAttempted, failedCtl, mdlFailed, anyAdded, loopEntered, pushRet, pushExc,
                   raisedOut, backupVars, fpVars, vcVars>>

\* with connect_model(...): leaving, by the end of the block or by an
\* exception; the model is disconnected, which can raise in its turn
exit_model ==
    /\ pc = "exit_model"
    /\ openModel' = openModel \ {<<ci, mi>>}
    /\ remoteIssued' = remoteIssued \cup {"disconnect"}
    /\ \/ /\ pc' = IF exc = "None" THEN "for_model" ELSE "except_model"
          /\ UNCHANGED exc
       \/ /\ exc' = "JujuError"
          /\ pc' = "except_model"
    /\ UNCHANGED <<inputVars, entry, localVars, loopVars, visitVars, openCtrl, ctlAttempted,
                   mdlAttempted, failedCtl, mdlFailed, anyAdded, loopEntered, pushRet, pushExc,
                   raisedOut, backupVars, fpVars, vcVars>>

\* the handler of the model lets the exception go on to the controller's
except_model_reraise ==
    /\ pc = "except_model"
    /\ mdlFailed' = mdlFailed \cup {mi}
    /\ pc' = "exit_controller"
    /\ UNCHANGED <<inputVars, entry, localVars, loopVars, visitVars, exc, connVars, remoteIssued,
                   ctlAttempted, mdlAttempted, failedCtl, anyAdded, loopEntered, pushRet,
                   pushExc, raisedOut, backupVars, fpVars, vcVars>>

\* except Exception: logging.error(...), for a model
except_model ==
    /\ pc = "except_model"
    /\ exc' = "None"
    /\ mdlFailed' = mdlFailed \cup {mi}
    /\ pc' = "for_model"
    /\ UNCHANGED <<inputVars, entry, localVars, loopVars, visitVars, connVars, remoteIssued,
                   ctlAttempted, mdlAttempted, failedCtl, anyAdded, loopEntered, pushRet,
                   pushExc, raisedOut, backupVars, fpVars, vcVars>>

\* with connect_controller(...): leaving, by the end of the block or by an
\* exception; the controller is disconnected, which can raise in its turn
exit_controller ==
    /\ pc = "exit_controller"
    /\ openCtrl' = openCtrl \ {ci}
    /\ remoteIssued' = remoteIssued \cup {"disconnect"}
    /\ \/ /\ pc' = IF exc = "None" THEN "for_controller" ELSE "except_controller"
          /\ UNCHANGED exc
       \/ /\ exc' = "JujuError"
          /\ pc' = "except_controller"
    /\ UNCHANGED <<inputVars, entry, localVars, loopVars, visitVars, openModel, ctlAttempted,
                   mdlAttempted, failedCtl, mdlFailed, anyAdded, loopEntered, pushRet, pushExc,
                   raisedOut, backupVars, fpVars, vcVars>>

\* the handler of the controller lets the exception leave the method
except_controller_reraise ==
    /\ pc = "except_controller"
    /\ failedCtl' = failedCtl \cup {ci}
    /\ pushExc' = exc
    /\ raisedOut' = exc
    /\ pc' = "done"
    /\ UNCHANGED <<inputVars, entry, localVars, loopVars, visitVars, exc, connVars, remoteIssued,
                   ctlAttempted, mdlAttempted, mdlFailed, anyAdded, loopEntered, pushRet,
                   backupVars, fpVars, vcVars>>

\* except Exception: logging.error(...), for a controller
except_controller ==
    /\ pc = "except_controller"
    /\ exc' = "None"
    /\ failedCtl' = failedCtl \cup {ci}
    /\ pc' = "for_controller"
    /\ UNCHANGED <<inputVars, entry, localVars, loopVars, visitVars, connVars, remoteIssued,
                   ctlAttempted, mdlAttempted, mdlFailed, anyAdded, loopEntered, pushRet,
                   pushExc, raisedOut, backupVars, fpVars, vcVars>>

\* push_ssh_keys: return "success"
return_success ==
    /\ pc = "return_success"
    /\ pushRet' = "success"
    /\ pc' = IF entry = "perform_backup" THEN "process_backups" ELSE "done"
    /\ UNCHANGED <<inputVars, entry, localVars, loopVars, visitVars, exc, connVars, traceVars,
                   pushExc, raisedOut, backupVars, fpVars, vcVars>>

\* the owner of the backup directory is set whether or not process_backups
\* returns
process_backups_then_chown ==
    /\ pc = "process_backups"
    /\ backupStarted' = TRUE
    /\ chowned' = TRUE
    /\ pc' = "done"
    /\ \/ /\ backupReturned' = TRUE
          /\ UNCHANGED raisedOut
       \/ /\ raisedOut' = "Exception"
          /\ UNCHANGED backupReturned
    /\ UNCHANGED <<inputVars, entry, localVars, loopVars, visitVars, exc, connVars, traceVars,
                   pushRet, pushExc, fpVars, vcVars>>

\* perform_backup: BackupProcessor(self.config).process_backups(...), which
\* returns the results or raises
process_backups ==
    /\ pc = "process_backups"
    /\ backupStarted' = TRUE
    /\ \/ /\ backupReturned' = TRUE
          /\ pc' = "update_dir_owner"
          /\ UNCHANGED raisedOut
       \/ /\ raisedOut' = "Exception"
          /\ pc' = "done"
          /\ UNCHANGED backupReturned
    /\ UNCHANGED <<inputVars, entry, localVars, loopVars, visitVars, exc, connVars, traceVars,
                   pushRet, pushExc, chowned, fpVars, vcVars>>

\* perform_backup: self._update_dir_owner(self.charm_config["backup-dir"])
update_dir_owner ==
    /\ pc = "update_dir_owner"
    /\ chowned' = TRUE
    /\ pc' = "done"
    /\ UNCHANGED <<inputVars, entry, localVars, loopVars, visitVars, exc, connVars, traceVars,
                   pushRet, pushExc, raisedOut, backupStarted, backupReturned, fpVars, vcVars>>

Next ==
    \/ perform_backup
    \/ push_ssh_keys
    \/ push_ssh_keys_to_models
    \/ gen_fingerprint
    \/ for_controller
    \/ connect_controller
    \/ list_models
    \/ for_model
    \/ connect_model
    \/ get_username
    \/ get_ssh_keys
    \/ check_fingerprint
    \/ add_ssh_keys
    \/ exit_model
    \/ except_model
    \/ exit_controller
    \/ except_controller
    \/ return_success
    \/ process_backups
    \/ update_dir_owner

Spec == Init /\ [][Next]_vars

\* the call of _gen_libjuju_ssh_key_fingerprint(raw_pubkey)
call_gen_libjuju_ssh_key_fingerprint ==
    /\ pc = "gen_libjuju_ssh_key_fingerprint"
    /\ fpRet' = _gen_libjuju_ssh_key_fingerprint(fpArg, keyFile)
    /\ pc' = "done"
    /\ UNCHANGED <<inputVars, entry, localVars, loopVars, visitVars, exc, connVars, traceVars,
                   pushRet, pushExc, raisedOut, backupVars, fpFields, fpArg, vcVars>>

NextFingerprint == call_gen_libjuju_ssh_key_fingerprint

SpecFingerprint == InitFingerprint /\ [][NextFingerprint]_vars

\* JujuBackupAllHelper.validate_config
validate_config ==
    /\ pc = "validate_config"
    /\ \E r \in {validate_fields(charm_config, unit_status, <<"controllers", "accounts">>)} :
           /\ unit_status' = r.status
           /\ vcRet' = r.ret
           /\ vcExc' = r.exc
    /\ statusBefore' = unit_status
    /\ pc' = "done"
    /\ UNCHANGED <<inputVars, entry, localVars, loopVars, visitVars, exc, connVars, traceVars,
                   pushRet, pushExc, raisedOut, backupVars, fpVars>>

NextValidate == validate_config

SpecValidate == InitValidate /\ [][NextValidate]_vars

\* the MD5 digests of the decoded bodies, in lowercase hex, as RFC 1321 and
\* hashlib give them
RefBodyEmpty ==
    <<"d","4","1","d","8","c","d","9","8","f","0","0","b","2","0","4","e","9","8","0","0","9","9","8","e","c","f","8","4","2","7","e">>
RefBodyA ==
    <<"0","c","c","1","7","5","b","9","c","0","f","1","b","6","a","8","3","1","c","3","9","9","e","2","6","9","7","7","2","6","6","1">>
RefBodyAbc ==
    <<"9","0","0","1","5","0","9","8","3","c","d","2","4","f","b","0","d","6","9","6","3","f","7","d","2","8","e","1","7","f","7","2">>
RefBodyDigest ==
    <<"f","9","6","b","6","9","7","d","7","c","b","7","9","3","8","d","5","2","5","a","2","f","3","1","a","a","f","1","6","1","d","0">>
RefBodySkip ==
    <<"9","0","0","1","5","0","9","8","3","c","d","2","4","f","b","0","d","6","9","6","3","f","7","d","2","8","e","1","7","f","7","2">>
RefBodyLong ==
    <<"3","b","0","c","8","a","c","7","0","3","f","8","2","8","b","0","4","c","6","c","1","9","7","0","0","6","d","1","7","2","1","8">>


(***************************************************************************)
(* Properties.                                                             *)
(***************************************************************************)

\* the statements after the body of the current model's with-block
AfterModel ==
    {"exit_model", "except_model", "for_model", "exit_controller", "except_controller",
     "for_controller", "return_success", "process_backups", "update_dir_owner", "done"}

\* the statements after the loop over the models of the current controller
AfterModels ==
    {"exit_controller", "except_controller", "for_controller", "return_success",
     "process_backups", "update_dir_owner", "done"}

\* the statements after the loop over the controllers
AfterPush == {"return_success", "process_backups", "update_dir_owner", "done"}

\* the candidate fingerprint is in the list get_ssh_keys returned (a null
\* result holds nothing)
KeyPresent ==
    LET result == keyinfo.results[1].result
    IN  /\ ~result.none
        /\ \E i \in 1..Len(result.list) : result.list[i] = fingerprint

\* C1: for a model whose connection and get_ssh_keys call succeeded, the
\* run issues exactly one add_ssh_keys request when the fingerprint is not
\* in the fetched list (an empty or null result counts as not present), and
\* none when it is in the list.
C1_AddCount ==
    (fetchedOk /\ pc \in AfterModel) =>
        Len(visitAdds) = (IF KeyPresent THEN 0 ELSE 1)

\* a model that holds the key is skipped after another model got the key
C1_Witness ==
    /\ pc = "exit_model"
    /\ fetchedOk
    /\ KeyPresent
    /\ visitAdds = <<>>
    /\ anyAdded

\* C2: an error while one model is processed does not keep the later models
\* of the controller from being processed, and an error while one
\* controller is processed does not keep the later controllers from being
\* processed: every controller is taken up, and so is every model that a
\* controller listed.
C2_Isolation ==
    /\ (listed /\ pc \in AfterModels) => mdlAttempted = 1..Len(model_names)
    /\ (loopEntered /\ pc \in AfterPush) => ctlAttempted = 1..Len(controller_names)

\* the first controller failed, the first model of the second one failed,
\* and its second model was processed
C2_Witness ==
    /\ pc = "return_success"
    /\ Len(controller_names) = 2
    /\ failedCtl = {1}
    /\ listed
    /\ Len(model_names) = 2
    /\ 1 \in mdlFailed
    /\ mi = 2
    /\ fetchedOk

\* C3: whatever number of controllers and models failed in the run,
\* push_ssh_keys returns "success" and nothing is raised to its caller; the
\* only errors that leave it are those raised before the first controller
\* is taken up.
C3_Success ==
    /\ loopEntered => pushExc = "None"
    /\ (loopEntered /\ pc \in AfterPush \ {"return_success"}) => pushRet = "success"
    /\ pushExc # "None" => (ctlAttempted = {} /\ remoteIssued = {})

\* every controller failed and no key was added anywhere
C3_Witness ==
    /\ pushRet = "success"
    /\ Len(controller_names) = 2
    /\ failedCtl = {1, 2}
    /\ ~anyAdded

\* C4: at most one controller connection and at most one model connection
\* are open, a model connection is open only while the connection of its
\* controller is, each connection is closed before the next model or
\* controller is connected, and none is open when the run ends.
C4_Connections ==
    /\ Cardinality(openCtrl) <= 1
    /\ Cardinality(openModel) <= 1
    /\ \A m \in openModel : m[1] \in openCtrl /\ m = <<ci, mi>>
    /\ openCtrl \subseteq {ci}
    /\ pc \in {"for_controller", "connect_controller"} => (openCtrl = {} /\ openModel = {})
    /\ pc \in {"for_model", "connect_model", "exit_controller"} => openModel = {}
    /\ pc \in AfterPush => (openCtrl = {} /\ openModel = {})

\* the second model is about to be connected after the first one raised
C4_Witness ==
    /\ pc = "connect_model"
    /\ mi = 2
    /\ 1 \in mdlFailed
    /\ openModel = {}
    /\ openCtrl = {ci}

\* how a fingerprint is laid out: the 32 hex digits in 16 groups of two,
\* joined by colons, then a space and the comment in parentheses
ColonGroups(hex) == [k \in 1..47 |-> IF k % 3 = 0 THEN ":" ELSE hex[k - (k \div 3)]]

RefDigest(body) ==
    CASE body = BodyEmpty  -> RefBodyEmpty
      [] body = BodyA      -> RefBodyA
      [] body = BodyAbc    -> RefBodyAbc
      [] body = BodyDigest -> RefBodyDigest
      [] body = BodySkip   -> RefBodySkip
      [] body = BodyLong   -> RefBodyLong

LowerHex == {"0","1","2","3","4","5","6","7","8","9","a","b","c","d","e","f"}

\* C5: for a key line of three fields (type, base64 body, comment) the
\* fingerprint is the lowercase hex MD5 digest of the decoded body as 16
\* groups of two characters joined by single colons, then one space and the
\* comment in parentheses; the key type has no part in it.
C5_Fingerprint ==
    (pc = "done" /\ Len(fpFields) = 3 /\ fpFields[2] \in Base64Bodies) =>
        /\ fpRet.exc = "None"
        /\ fpRet.val = ColonGroups(RefDigest(fpFields[2])) \o <<" ", "(">> \o fpFields[3] \o <<")">>
        /\ \A k \in 1..47 : k % 3 # 0 => fpRet.val[k] \in LowerHex

\* the fingerprint of an ed25519 key whose body takes two MD5 blocks
C5_Witness ==
    /\ pc = "done"
    /\ entry = "gen_libjuju_ssh_key_fingerprint"
    /\ fpFields = <<KeyTypeEd, BodyLong, CommentHost>>
    /\ fpRet.exc = "None"
    /\ Len(fpRet.val) = 62

\* C6: a key string whose number of whitespace-separated fields is not
\* three is rejected: the call raises and returns no fingerprint.
C6_FieldCount ==
    (pc = "done" /\ entry = "gen_libjuju_ssh_key_fingerprint" /\ Len(fpFields) # 3) =>
        (fpRet.exc = "ValueError" /\ fpRet.val = <<>>)

\* a key whose comment holds a space
C6_Witness ==
    /\ pc = "done"
    /\ entry = "gen_libjuju_ssh_key_fingerprint"
    /\ Len(fpFields) = 4
    /\ fpFields[2] = BodyAbc
    /\ fpRet.exc = "ValueError"

\* the documents that are a mapping with the key "controllers"
ValidDocs == {DocFull, DocPartial}

BothValid == charm_config.controllers \in ValidDocs /\ charm_config.accounts \in ValidDocs

FirstInvalid == IF charm_config.controllers \notin ValidDocs THEN "controllers" ELSE "accounts"

\* C7: validate_config never raises; it returns True, with the unit status
\* as it was, exactly when both options are a YAML mapping with the key
\* "controllers", and otherwise returns False with the unit status Blocked
\* and naming the first invalid option.
C7_ValidateConfig ==
    (pc = "done" /\ entry = "validate_config") =>
        /\ vcExc = "None"
        /\ BothValid => (vcRet = "True" /\ unit_status = statusBefore)
        /\ ~BothValid =>
              /\ vcRet = "False"
              /\ unit_status = BlockedStatus("Invalid yaml for '" \o FirstInvalid \o "' option")

\* the requests that change nothing on the remote side
ReadRequests == {"connect", "list_models", "get_ssh_keys", "disconnect"}

\* the user the accounts option gives for the current controller
AccountOf(controller_name) ==
    safe_load(charm_config.accounts).val.controllers[controller_name].user

\* C8: the only remote change the run asks for is add_ssh_keys; each such
\* request carries the username the accounts give for its controller and
\* the public key read at the start of the run, at most one is issued for a
\* model, and the run changes no local state.
C8_OnlyAdds ==
    /\ [](/\ remoteIssued \ ReadRequests \subseteq {"add_ssh_keys"}
          /\ Len(visitAdds) <= 1
          /\ \A i \in 1..Len(visitAdds) :
                /\ visitAdds[i].username = AccountOf(controller_names[ci])
                /\ visitAdds[i].key = strip(keyFile))
    /\ [][UNCHANGED <<keyFile, charm_config, unit_status>>]_vars

\* a key was added on a model of the second controller
C8_Witness ==
    /\ pc = "exit_model"
    /\ ci = 2
    /\ Len(visitAdds) = 1
    /\ visitAdds[1].username = "backup"
    /\ "add_ssh_keys" \in remoteIssued

\* C9: in perform_backup the key push is over, with every connection
\* closed, before process_backups starts; process_backups is called also
\* when controllers or models failed in the push; and the owner of the
\* backup directory is set only after process_backups returned.
C9_BackupOrder ==
    /\ backupStarted =>
          /\ pushRet = "success"
          /\ ctlAttempted = 1..Len(controller_names)
          /\ openCtrl = {} /\ openModel = {}
    /\ pc = "process_backups" => (openCtrl = {} /\ openModel = {} /\ pushRet = "success")
    /\ (entry = "perform_backup" /\ loopEntered /\ pc = "done") => backupStarted
    /\ chowned => backupReturned

\* the backup ran to its end after every controller failed in the push
C9_Witness ==
    /\ pc = "done"
    /\ entry = "perform_backup"
    /\ Len(controller_names) = 2
    /\ failedCtl = {1, 2}
    /\ backupReturned
    /\ chowned

\* the number of whitespace-separated fields of a text: the positions where
\* a run of characters other than whitespace starts
FieldCount(s) ==
    Cardinality({i \in 1..Len(s) :
                    s[i] \notin Whitespace /\ (i = 1 \/ s[i - 1] \in Whitespace)})

\* the lines of a text: what stands between its line ends, and what follows
\* the last one when that is not empty
LineEnds(s) == {i \in 1..Len(s) : s[i] = "\n"}

LineStarts(s) == {i \in 1..Len(s) : i = 1 \/ s[i - 1] = "\n"}

LineAt(s, i) ==
    LET ends == {e \in LineEnds(s) : e >= i}
    IN  SubSeq(s, i, (IF ends = {} THEN Len(s) ELSE SetMin(ends) - 1))

Lines(s) == {LineAt(s, i) : i \in LineStarts(s)}

\* what the run does when it takes the key for malformed
FailsBeforeConnecting ==
    /\ remoteIssued = {}
    /\ openCtrl = {} /\ openModel = {}
    /\ ctlAttempted = {}
    /\ pushRet = "None"
    /\ ~backupStarted
    /\ pc \notin {"process_backups", "update_dir_owner"}
    /\ pc = "done" => (pushExc # "None" /\ raisedOut = pushExc)

\* C10, as stated: when the key file holds a line whose field count is not
\* three, the run fails before a controller is connected: no remote request
\* is issued, the error leaves push_ssh_keys in place of "success", and
\* perform_backup does not reach process_backups.
C10_AnyLine ==
    (\E line \in Lines(keyFile) : FieldCount(line) # 3) => FailsBeforeConnecting

\* C10, amended: when the text of the key file, taken whole, does not hold
\* exactly three whitespace-separated fields, the run fails before a
\* controller is connected: no remote request is issued, the error leaves
\* push_ssh_keys in place of "success", and perform_backup does not reach
\* process_backups.
C10_MalformedKey ==
    FieldCount(keyFile) # 3 => FailsBeforeConnecting

\* perform_backup ended by the error of a key whose comment holds a space
C10_Witness ==
    /\ pc = "done"
    /\ entry = "perform_backup"
    /\ keyFile = KeyFileSpacedComment
    /\ pushExc = "ValueError"
    /\ raisedOut = "ValueError"

====
